---- MODULE Spec2Model ----
(***************************************************************************)
(* A model of flight_parser.py: the field validators, the record           *)
(* validator (parse_flight_record), CSV ingestion (parse_csv_file,         *)
(* parse_csv_folder), the JSON database loader (load_json_database), the   *)
(* query engine (execute_query, execute_queries_from_file) and the control *)
(* flow of main().                                                         *)
(*                                                                         *)
(* Texts are TLA+ strings handled character by character; a float is an    *)
(* exact decimal n / 10^k, or nan, or an infinity.                         *)
(***************************************************************************)
EXTENDS Integers, Sequences, FiniteSets, TLC

VARIABLES pc, mode, valid_flights, errors, files, line_number, row,
          out_flights, out_errors, record, result, reloaded,
          queries, results

vars == <<pc, mode, valid_flights, errors, files, line_number, row,
          out_flights, out_errors, record, result, reloaded,
          queries, results>>

-----------------------------------------------------------------------------
(* Characters and the str methods the program uses.                        *)

Char(s, i) == SubSeq(s, i, i)

Digits == {"0", "1", "2", "3", "4", "5", "6", "7", "8", "9"}

UpperLetters == {"A", "B", "C", "D", "E", "F", "G", "H", "I", "J", "K", "L", "M",
                 "N", "O", "P", "Q", "R", "S", "T", "U", "V", "W", "X", "Y", "Z"}

LowerLetters == {"a", "b", "c", "d", "e", "f", "g", "h", "i", "j", "k", "l", "m",
                 "n", "o", "p", "q", "r", "s", "t", "u", "v", "w", "x", "y", "z"}

\* The characters str.strip() removes and the regex class \s matches.
Whitespace == {" ", "\t", "\n", "\r", "\f"}

AllIn(s, set) == \A i \in 1..Len(s) : Char(s, i) \in set

RECURSIVE LStrip(_)
LStrip(s) == IF Len(s) > 0 /\ Char(s, 1) \in Whitespace
             THEN LStrip(SubSeq(s, 2, Len(s)))
             ELSE s

RECURSIVE RStrip(_)
RStrip(s) == IF Len(s) > 0 /\ Char(s, Len(s)) \in Whitespace
             THEN RStrip(SubSeq(s, 1, Len(s) - 1))
             ELSE s

\* str.strip()
strip(s) == RStrip(LStrip(s))

\* str.lower() on the ASCII letters
LowerChar(c) ==
    CASE c = "A" -> "a" [] c = "B" -> "b" [] c = "C" -> "c" [] c = "D" -> "d"
      [] c = "E" -> "e" [] c = "F" -> "f" [] c = "G" -> "g" [] c = "H" -> "h"
      [] c = "I" -> "i" [] c = "J" -> "j" [] c = "K" -> "k" [] c = "L" -> "l"
      [] c = "M" -> "m" [] c = "N" -> "n" [] c = "O" -> "o" [] c = "P" -> "p"
      [] c = "Q" -> "q" [] c = "R" -> "r" [] c = "S" -> "s" [] c = "T" -> "t"
      [] c = "U" -> "u" [] c = "V" -> "v" [] c = "W" -> "w" [] c = "X" -> "x"
      [] c = "Y" -> "y" [] c = "Z" -> "z" [] OTHER -> c

RECURSIVE lower(_)
lower(s) == IF Len(s) = 0 THEN s
            ELSE LowerChar(Char(s, 1)) \o lower(SubSeq(s, 2, Len(s)))

\* str.startswith
startswith(s, p) == Len(s) >= Len(p) /\ SubSeq(s, 1, Len(p)) = p

\* sep.join(parts)
RECURSIVE join(_, _)
join(sep, parts) ==
    IF Len(parts) = 0 THEN ""
    ELSE IF Len(parts) = 1 THEN parts[1]
    ELSE parts[1] \o sep \o join(sep, Tail(parts))

DigitVal(c) ==
    CASE c = "0" -> 0 [] c = "1" -> 1 [] c = "2" -> 2 [] c = "3" -> 3
      [] c = "4" -> 4 [] c = "5" -> 5 [] c = "6" -> 6 [] c = "7" -> 7
      [] c = "8" -> 8 [] c = "9" -> 9

\* int() of a string of decimal digits
RECURSIVE ToInt(_)
ToInt(s) == IF Len(s) = 0 THEN 0
            ELSE 10 * ToInt(SubSeq(s, 1, Len(s) - 1)) + DigitVal(Char(s, Len(s)))

RECURSIVE Pow10(_)
Pow10(k) == IF k = 0 THEN 1 ELSE 10 * Pow10(k - 1)

\* re.match(r'^[...]{lo,hi}$', s): in Python "$" matches at the end of the
\* string and also just before a newline that ends the string.
MatchClass(s, set, lo, hi) ==
    \/ Len(s) \in lo..hi /\ AllIn(s, set)
    \/ /\ Len(s) - 1 \in lo..hi
       /\ Char(s, Len(s)) = "\n"
       /\ AllIn(SubSeq(s, 1, Len(s) - 1), set)

-----------------------------------------------------------------------------------------------------------------------------------------------------
(* float(): a float is [kind |-> "num", n, k] (the decimal n / 10^k),      *)
(* [kind |-> "nan"] or [kind |-> "inf", neg]; [kind |-> "err"] stands for  *)
(* ValueError. The grammar covers what the texts of this model use: outer  *)
(* whitespace, a sign, nan, inf, infinity, and digits with one point.      *)
(* Intermediate values are passed as parameters, as the locals they are.   *)

Num(n, k) == [kind |-> "num", n |-> n, k |-> k]

NaN == [kind |-> "nan"]

Inf(neg) == [kind |-> "inf", neg |-> neg]

FloatError == [kind |-> "err"]

PointsIn(s) == {i \in 1..Len(s) : SubSeq(s, i, i) = "."}

\* The digits int before and frac after the point
DecimalOf(int, frac) ==
    IF Len(int) + Len(frac) = 0 \/ ~AllIn(int \o frac, Digits)
    THEN FloatError
    ELSE Num(ToInt(int \o frac), Len(frac))

\* body with its point, if any, at position p
SplitAtPoint(body, p) ==
    DecimalOf(SubSeq(body, 1, p - 1), SubSeq(body, p + 1, Len(body)))

\* digits [. digits] | . digits, without sign; pts are the points' positions
ParseDecimal(body, pts) ==
    IF Cardinality(pts) > 1 THEN FloatError
    ELSE IF pts = {} THEN SplitAtPoint(body, Len(body) + 1)
    ELSE SplitAtPoint(body, CHOOSE i \in pts : TRUE)

\* body is the text without its sign, low is body in lower case
ParseUnsigned(body, low) ==
    CASE low = "nan" -> NaN
      [] low \in {"inf", "infinity"} -> Inf(FALSE)
      [] OTHER -> ParseDecimal(body, PointsIn(body))

Negate(v) ==
    CASE v.kind = "num" -> Num(0 - v.n, v.k)
      [] v.kind = "inf" -> Inf(~v.neg)
      [] OTHER -> v

\* t is the text without outer whitespace, rest is t without its first character
ParseSigned(t, rest) ==
    IF Len(t) > 0 /\ SubSeq(t, 1, 1) = "-" THEN Negate(ParseUnsigned(rest, lower(rest)))
    ELSE IF Len(t) > 0 /\ SubSeq(t, 1, 1) = "+" THEN ParseUnsigned(rest, lower(rest))
    ELSE ParseUnsigned(t, lower(t))

StripFirst(t) == SubSeq(t, 2, Len(t))

FloatOfStripped(t) == ParseSigned(t, StripFirst(t))

float(text) == FloatOfStripped(strip(text))

\* a > b on floats; every comparison with nan is False
FloatGT(a, b) ==
    CASE a.kind = "nan" \/ b.kind = "nan" -> FALSE
      [] a.kind = "inf" -> ~a.neg /\ b # a
      [] b.kind = "inf" -> b.neg
      [] OTHER -> a.n * Pow10(b.k) > b.n * Pow10(a.k)

\* a <= b on floats
FloatLE(a, b) ==
    CASE a.kind = "nan" \/ b.kind = "nan" -> FALSE
      [] OTHER -> ~FloatGT(a, b)

Zero == Num(0, 0)

\* The binary expansion of r / den, bit by bit: `left` significant bits are
\* still to be kept (53 in a double), `started` says that the leading 1 bit
\* has been passed and `last` is the last bit kept. The result is the sign of
\* (nearest double) - (exact value): round to nearest, ties to even.
RECURSIVE BinaryTail(_, _, _, _, _)
BinaryTail(r, den, left, started, last) ==
    IF r = 0 THEN 0
    ELSE IF left = 0
         THEN IF 2 * r > den THEN 1
              ELSE IF 2 * r < den THEN -1
              ELSE IF last = 1 THEN 1 ELSE -1
    ELSE BinaryTail((2 * r) % den, den,
                    IF started \/ 2 * r >= den THEN left - 1 ELSE left,
                    started \/ 2 * r >= den,
                    (2 * r) \div den)

RECURSIVE BitLength(_)
BitLength(i) == IF i = 0 THEN 0 ELSE 1 + BitLength(i \div 2)

MantissaBits == 53

\* The sign of float(n / den) - n / den for n >= 0.
DoubleError(n, den) ==
    BinaryTail(n % den, den, MantissaBits - BitLength(n \div den),
               n \div den > 0, (n \div den) % 2)

SignedDoubleError(n, den) ==
    IF n >= 0 THEN DoubleError(n, den) ELSE 0 - DoubleError(0 - n, den)

\* Whether q + r / d rounds to q + 1, err being the double's error sign
RoundsUp(q, r, d, err) ==
    \/ 2 * r > d
    \/ 2 * r = d /\ (err = 1 \/ (err = 0 /\ q % 2 = 1))

\* n / 10^k in units of 1 / 100, d = 10^(k - 2)
RoundAt(n, k, d) ==
    IF RoundsUp(n \div d, n % d, d, SignedDoubleError(n, Pow10(k)))
    THEN Num(n \div d + 1, 2)
    ELSE Num(n \div d, 2)

\* round(v, 2): the double's exact value rounded to 2 decimals, half to even.
Round2(v) ==
    IF v.kind # "num" THEN v
    ELSE IF v.k <= 2 THEN Num(v.n * Pow10(2 - v.k), 2)
    ELSE RoundAt(v.n, v.k, Pow10(v.k - 2))

-----------------------------------------------------------------------------
(* datetime.strptime(s, "%Y-%m-%d %H:%M"): the regex the format compiles   *)
(* to is \d\d\d\d - (1[0-2]|0[1-9]|[1-9]) - (3[01]|[12]\d|0[1-9]|[1-9]|    *)
(* [1-9]) \s+ (2[0-3]|[0-1]\d|\d) : ([0-5]\d|\d), the whole text must be   *)
(* consumed, and the date must exist.                                      *)

DATE_FORMAT == "%Y-%m-%d %H:%M"

\* A token of one character c, or of two characters c and d (d = "" for one)
MonthToken(c, d) ==
    \/ d = "" /\ c \in Digits \ {"0"}
    \/ c = "1" /\ d \in {"0", "1", "2"}
    \/ c = "0" /\ d \in Digits \ {"0"}

DayToken(c, d) ==
    \/ d = "" /\ c \in Digits \ {"0"}
    \/ c = "3" /\ d \in {"0", "1"}
    \/ c \in {"1", "2"} /\ d \in Digits
    \/ c \in {"0", " "} /\ d \in Digits \ {"0"}

HourToken(c, d) ==
    \/ d = "" /\ c \in Digits
    \/ c = "2" /\ d \in {"0", "1", "2", "3"}
    \/ c \in {"0", "1"} /\ d \in Digits

MinuteToken(c, d) ==
    \/ d = "" /\ c \in Digits
    \/ c \in {"0", "1", "2", "3", "4", "5"} /\ d \in Digits

\* Whether the regex consumes all of s with the day at d0, the whitespace at
\* w0, the hour at h0 and the colon at c0 (the month is at 6).
SplitMatches(s, d0, w0, h0, c0) ==
    /\ c0 + 1 <= Len(s) /\ Len(s) - c0 \in 1..2
    /\ AllIn(SubSeq(s, 1, 4), Digits)
    /\ SubSeq(s, 5, 5) = "-"
    /\ MonthToken(SubSeq(s, 6, 6), SubSeq(s, 7, d0 - 2))
    /\ SubSeq(s, d0 - 1, d0 - 1) = "-"
    /\ DayToken(SubSeq(s, d0, d0), SubSeq(s, d0 + 1, w0 - 1))
    /\ AllIn(SubSeq(s, w0, h0 - 1), Whitespace)
    /\ HourToken(SubSeq(s, h0, h0), SubSeq(s, h0 + 1, c0 - 1))
    /\ SubSeq(s, c0, c0) = ":"
    /\ MinuteToken(SubSeq(s, c0 + 1, c0 + 1), SubSeq(s, c0 + 2, Len(s)))

MinDateLen == 12

\* The lengths <<month, day, whitespace, hour>> of the one way, if any, in
\* which the regex consumes the whole of s.
DateSplits(s) ==
    IF Len(s) < MinDateLen THEN {}
    ELSE {sp \in (1..2) \X (1..2) \X (1..(Len(s) - MinDateLen + 1)) \X (1..2) :
            SplitMatches(s, 7 + sp[1], 7 + sp[1] + sp[2],
                         7 + sp[1] + sp[2] + sp[3],
                         7 + sp[1] + sp[2] + sp[3] + sp[4])}

IsLeap(y) == y % 4 = 0 /\ (y % 100 # 0 \/ y % 400 = 0)

DaysInMonth(y, m) ==
    CASE m \in {4, 6, 9, 11} -> 30
      [] m = 2 -> IF IsLeap(y) THEN 29 ELSE 28
      [] OTHER -> 31

DateError == [ok |-> FALSE]

\* datetime(y, m, d, h, mi), or DateError for ValueError
MakeDate(y, m, d, h, mi) ==
    IF y < 1 \/ d > DaysInMonth(y, m) THEN DateError
    ELSE [ok |-> TRUE, t |-> <<y, m, d, h, mi>>]

DateAt(s, d0, w0, h0, c0) ==
    MakeDate(ToInt(SubSeq(s, 1, 4)),
             ToInt(SubSeq(s, 6, d0 - 2)),
             ToInt(strip(SubSeq(s, d0, w0 - 1))),
             ToInt(SubSeq(s, h0, c0 - 1)),
             ToInt(SubSeq(s, c0 + 1, Len(s))))

DateOfSplit(s, sp) ==
    DateAt(s, 7 + sp[1], 7 + sp[1] + sp[2], 7 + sp[1] + sp[2] + sp[3],
           7 + sp[1] + sp[2] + sp[3] + sp[4])

DateOfSplits(s, sps) ==
    IF sps = {} THEN DateError ELSE DateOfSplit(s, CHOOSE sp \in sps : TRUE)

\* The parsed datetime as <<year, month, day, hour, minute>>, or DateError
\* for ValueError.
strptime(s) == DateOfSplits(s, DateSplits(s))

\* a < b on datetimes: lexicographic on <<year, month, day, hour, minute>>
DateLT(a, b) ==
    \E i \in 1..5 : a[i] < b[i] /\ \A j \in 1..(i - 1) : a[j] = b[j]

-----------------------------------------------------------------------------
(* The field validators.                                                   *)

AlphaNumeric == UpperLetters \cup LowerLetters \cup Digits

MinIdLen == 2
MaxIdLen == 8
CodeLen == 3

validate_flight_id(flight_id) == MatchClass(flight_id, AlphaNumeric, MinIdLen, MaxIdLen)

validate_airport_code(code) == MatchClass(code, UpperLetters, CodeLen, CodeLen)

validate_datetime(datetime_str) == strptime(datetime_str).ok

\* price > 0, or False on ValueError
IsPositive(price) == price.kind # "err" /\ FloatGT(price, Zero)

validate_price(price_str) == IsPositive(float(price_str))

\* arrival > departure, or False on ValueError
\* The ordering test with <= in place of <: equal timestamps accepted
ArrivesAfterOrEqual(departure, arrival) ==
    departure.ok /\ arrival.ok /\ ~DateLT(arrival.t, departure.t)

ArrivesAfter(departure, arrival) ==
    departure.ok /\ arrival.ok /\ DateLT(departure.t, arrival.t)

validate_times(departure_str, arrival_str) ==
    ArrivesAfter(strptime(departure_str), strptime(arrival_str))

-----------------------------------------------------------------------------
(* parse_flight_record                                                     *)

None == [none |-> TRUE]

Range(seq) == {seq[i] : i \in 1..Len(seq)}

FIELD_COUNT == 6

\* A validator that stops at the first broken rule
appendFirstOnly(errors_, message) ==
    IF errors_ = <<>> THEN Append(errors_, message) ELSE errors_

\* errors.append(message)
append(errors_, message) == Append(errors_, message)

\* The flight_id block: lines 80-88.
FlightIdErrors(errs, flight_id) ==
    IF flight_id = "" THEN append(errs, "missing flight_id")
    ELSE IF ~validate_flight_id(flight_id)
         THEN IF Len(flight_id) < MinIdLen
              THEN append(errs, "flight_id too short (less than 2 characters)")
              ELSE IF Len(flight_id) > MaxIdLen
              THEN append(errs, "flight_id too long (more than 8 characters)")
              ELSE append(errs, "flight_id must be alphanumeric")
    ELSE errs

\* The origin and destination blocks: lines 90-98.
CodeErrors(errs, code, field) ==
    IF code = "" THEN append(errs, "missing " \o field)
    ELSE IF ~validate_airport_code(code)
         THEN append(errs, "invalid " \o field \o " code")
    ELSE errs

\* The departure block: lines 100-103.
DepartureErrors(errs, departure_dt) ==
    IF departure_dt = "" THEN append(errs, "missing departure_datetime")
    ELSE IF ~validate_datetime(departure_dt)
         THEN append(errs, "invalid departure datetime")
    ELSE errs

\* The arrival block: lines 105-112.
ArrivalErrors(errs, departure_dt, arrival_dt) ==
    IF arrival_dt = "" THEN append(errs, "missing arrival_datetime")
    ELSE IF ~validate_datetime(arrival_dt)
         THEN append(errs, "invalid arrival datetime")
    ELSE IF /\ validate_datetime(departure_dt)
            /\ validate_datetime(arrival_dt)
            /\ ~validate_times(departure_dt, arrival_dt)
         THEN append(errs, "arrival before departure")
    ELSE errs

\* Lines 117-124: price_val is float(price), FloatError for ValueError
InvalidPriceError(errs, price_val) ==
    IF price_val.kind = "err" THEN append(errs, "invalid price format")
    ELSE IF FloatLE(price_val, Zero) THEN append(errs, "price must be positive")
    ELSE append(errs, "invalid price format")

\* The price block: lines 114-124.
PriceErrors(errs, price) ==
    IF price = "" THEN append(errs, "missing price")
    ELSE IF ~validate_price(price) THEN InvalidPriceError(errs, float(price))
    ELSE errs

\* Lines 80-124 on the stripped fields
FieldErrors(flight_id, origin, destination, departure_dt, arrival_dt, price) ==
    PriceErrors(
      ArrivalErrors(
        DepartureErrors(
          CodeErrors(
            CodeErrors(FlightIdErrors(<<>>, flight_id), origin, "origin"),
            destination, "destination"),
          departure_dt),
        departure_dt, arrival_dt),
      price)

\* Lines 126-140: the result is (is_valid, flight_data, error_messages)
RecordResult(errs, flight_id, origin, destination, departure_dt, arrival_dt, price) ==
    IF errs # <<>>
    THEN [is_valid |-> FALSE, flight_data |-> None, errors |-> errs]
    ELSE [is_valid |-> TRUE,
          flight_data |-> [flight_id          |-> flight_id,
                           origin             |-> origin,
                           destination        |-> destination,
                           departure_datetime |-> departure_dt,
                           arrival_datetime   |-> arrival_dt,
                           price              |-> Round2(float(price))],
          errors |-> <<>>]

\* Lines 69-140 on the stripped fields
ValidateFields(flight_id, origin, destination, departure_dt, arrival_dt, price) ==
    RecordResult(
      FieldErrors(flight_id, origin, destination, departure_dt, arrival_dt, price),
      flight_id, origin, destination, departure_dt, arrival_dt, price)

parse_flight_record(rec) ==
    IF Len(rec) # FIELD_COUNT
    THEN [is_valid |-> FALSE, flight_data |-> None,
          errors |-> IF Len(rec) < FIELD_COUNT
                     THEN append(<<>>, "missing required fields")
                     ELSE append(<<>>, "extra fields")]
    ELSE ValidateFields(strip(rec[1]), strip(rec[2]), strip(rec[3]),
                        strip(rec[4]), strip(rec[5]), strip(rec[6]))

-----------------------------------------------------------------------------
(* load_json_database: one element of the document. A JSON element is a    *)
(* record whose string fields hold str(value) and whose price is           *)
(* [tag |-> "str", s] for a JSON string or [tag |-> "num", v] for a JSON   *)
(* number (json reads NaN and Infinity as numbers).                        *)

required_fields == <<"flight_id", "origin", "destination",
                     "departure_datetime", "arrival_datetime", "price">>

\* float(flight['price'])
JsonFloat(p) == IF p.tag = "str" THEN float(p.s) ELSE p.v

\* price <= 0: line 276
PriceRejected(price) == FloatLE(price, Zero)

\* Lines 275-287: price is float(flight['price']), FloatError for ValueError
LoadPriced(flight, price) ==
    IF price.kind = "err" THEN <<>>
    ELSE IF PriceRejected(price) THEN <<>>
    ELSE <<[flight_id          |-> flight.flight_id,
            origin             |-> flight.origin,
            destination        |-> flight.destination,
            departure_datetime |-> flight.departure_datetime,
            arrival_datetime   |-> flight.arrival_datetime,
            price              |-> Round2(price)]>>

\* Lines 248-290 for one element: <<flight>> when it is kept, <<>> when an
\* exception skips it.
LoadElement(flight) ==
    IF \E i \in 1..Len(required_fields) : required_fields[i] \notin DOMAIN flight
    THEN <<>>
    ELSE IF ~validate_flight_id(flight.flight_id) THEN <<>>
    ELSE IF ~validate_airport_code(flight.origin) THEN <<>>
    ELSE IF ~validate_airport_code(flight.destination) THEN <<>>
    ELSE IF ~validate_datetime(flight.departure_datetime) THEN <<>>
    ELSE IF ~validate_datetime(flight.arrival_datetime) THEN <<>>
    ELSE IF ~validate_times(flight.departure_datetime, flight.arrival_datetime)
         THEN <<>>
    ELSE LoadPriced(flight, JsonFloat(flight.price))

\* The loop of lines 246-290 over the document.
RECURSIVE LoadAll(_)
LoadAll(data) ==
    IF Len(data) = 0 THEN <<>>
    ELSE LoadElement(Head(data)) \o LoadAll(Tail(data))

\* json.dump then json.load of a stored flight: strings and floats survive.
AsJson(flight) == [flight EXCEPT !.price = [tag |-> "num", v |-> flight.price]]

-----------------------------------------------------------------------------
(* execute_query and execute_queries_from_file. A query is the sequence of *)
(* its (field, value) items in the order query.items() yields them; the    *)
(* fields of one query are distinct. Values are JSON strings.              *)

\* Lines 323-327: "raise" when strptime raises ValueError
DepartureOutcome(flight_dt, query_dt) ==
    IF ~flight_dt.ok \/ ~query_dt.ok THEN "raise"
    ELSE IF DateLT(flight_dt.t, query_dt.t) THEN "nomatch"
    ELSE "pass"

\* Lines 330-334
ArrivalOutcome(flight_dt, query_dt) ==
    IF ~flight_dt.ok \/ ~query_dt.ok THEN "raise"
    ELSE IF DateLT(query_dt.t, flight_dt.t) THEN "nomatch"
    ELSE "pass"

\* Lines 337-344: query_price is float(value), FloatError for ValueError
\* The price test with >= in place of >: the boundary excluded
PriceOutcomeExclusive(flight_price, query_price) ==
    IF query_price.kind = "err" THEN "nomatch"
    ELSE IF FloatGT(flight_price, query_price) \/ flight_price = query_price
    THEN "nomatch"
    ELSE "pass"

PriceOutcome(flight_price, query_price) ==
    IF query_price.kind = "err" THEN "nomatch"
    ELSE IF FloatGT(flight_price, query_price) THEN "nomatch"
    ELSE "pass"

\* The item test with an else branch that rejects unrecognized fields
ItemOutcomeKnownOnly(flight, field, value) ==
    CASE field \in {"flight_id", "origin", "destination"} ->
           IF flight[field] # value THEN "nomatch" ELSE "pass"
      [] field = "departure_datetime" ->
           DepartureOutcome(strptime(flight.departure_datetime), strptime(value))
      [] field = "arrival_datetime" ->
           ArrivalOutcome(strptime(flight.arrival_datetime), strptime(value))
      [] field = "price" ->
           PriceOutcome(flight.price, float(value))
      [] OTHER -> "nomatch"

\* One item of the loop of lines 306-344 on one flight: "pass" when match
\* stays True, "nomatch" when the item sets it False and breaks, "raise" when
\* an exception leaves execute_query.
ItemOutcome(flight, field, value) ==
    CASE field \in {"flight_id", "origin", "destination"} ->
           IF flight[field] # value THEN "nomatch" ELSE "pass"
      [] field = "departure_datetime" ->
           DepartureOutcome(strptime(flight.departure_datetime), strptime(value))
      [] field = "arrival_datetime" ->
           ArrivalOutcome(strptime(flight.arrival_datetime), strptime(value))
      [] field = "price" ->
           PriceOutcome(flight.price, float(value))
      [] OTHER -> "pass"

\* The loop of lines 306-344 from item i on: "match" when it ends with match
\* still True, else the outcome of the item that ended it.
RECURSIVE MatchFrom(_, _, _)
AfterItem(outcome, flight, query, i) ==
    IF outcome = "pass" THEN MatchFrom(flight, query, i + 1) ELSE outcome

MatchFrom(flight, query, i) ==
    IF i > Len(query) THEN "match"
    ELSE AfterItem(ItemOutcome(flight, query[i][1], query[i][2]), flight, query, i)

\* The loop of lines 303-347 over flights: [raised, matches].
RECURSIVE QueryLoop(_, _, _)
AfterFlight(m, flights, query, matches) ==
    IF m = "raise" THEN [raised |-> TRUE, matches |-> matches]
    ELSE QueryLoop(Tail(flights), query,
                   IF m = "match" THEN Append(matches, Head(flights)) ELSE matches)

QueryLoop(flights, query, matches) ==
    IF Len(flights) = 0 THEN [raised |-> FALSE, matches |-> matches]
    ELSE AfterFlight(MatchFrom(Head(flights), query, 1), flights, query, matches)

execute_query(flights, query) == QueryLoop(flights, query, <<>>)

\* The loop of lines 365-371: [raised, results].
RECURSIVE QueriesLoop(_, _, _)
AfterQuery(r, flights, qs, acc) ==
    IF r.raised THEN [raised |-> TRUE, results |-> acc]
    ELSE QueriesLoop(flights, Tail(qs),
                     Append(acc, [query |-> Head(qs), matches |-> r.matches]))

QueriesLoop(flights, qs, acc) ==
    IF Len(qs) = 0 THEN [raised |-> FALSE, results |-> acc]
    ELSE AfterQuery(execute_query(flights, Head(qs)), flights, qs, acc)

execute_queries_from_file(flights, qs) == QueriesLoop(flights, qs, <<>>)

-----
(* parse_csv_file: the body of the loop over the reader's rows.            *)

\* `not row`: line 153
\* The empty-row test that also takes a single empty field for empty
IsEmptyOrBlankRow(r) == r = <<>> \/ r = <<"">>

IsEmptyRow(r) == r = <<>>

\* Line 157
IsCommentRow(r) == startswith(strip(r[1]), "#")

HEADER_LINE == 1

\* The header test without the line_number == 1 condition
IsHeaderRowAnywhere(r, ln) ==
    /\ Len(r) >= 6
    /\ lower(r[1]) = "flight_id"
    /\ lower(r[2]) = "origin"

\* Lines 167-170
IsHeaderRow(r, ln) ==
    /\ ln = HEADER_LINE
    /\ Len(r) >= FIELD_COUNT
    /\ lower(r[1]) = "flight_id"
    /\ lower(r[2]) = "origin"

COMMENT_MESSAGE == "comment line, ignored for data parsing"

Diagnostic(file, ln, r, message) ==
    [file |-> file, line_number |-> ln, raw_line |-> join(",", r), error |-> message]

\* Lines 178-186: res is the result of parse_flight_record
Collect(res, r, ln, file, flights, errs) ==
    IF res.is_valid
    THEN [valid |-> Append(flights, res.flight_data), errors |-> errs]
    ELSE [valid |-> flights,
          errors |-> Append(errs, Diagnostic(file, ln, r, join("; ", res.errors)))]

\* Lines 152-186 for row r read as line ln of `file`: the collections after it.
ProcessRow(r, ln, file, flights, errs) ==
    IF IsEmptyRow(r) THEN [valid |-> flights, errors |-> errs]
    ELSE IF IsCommentRow(r)
         THEN [valid |-> flights,
               errors |-> Append(errs, Diagnostic(file, ln, r, COMMENT_MESSAGE))]
    ELSE IF IsHeaderRow(r, ln) THEN [valid |-> flights, errors |-> errs]
    ELSE Collect(parse_flight_record(r), r, ln, file, flights, errs)

-----------------------------------------------------------------------------
(* Bounds and inputs.                                                      *)

\* Rows read from one file.
MaxLine == 2
\* Flights and diagnostics collected in one run.
MaxRecords == 2
\* CSV files in the folder; file i is the i-th name in sorted order.
MaxFiles == 2
\* Elements of a JSON database document.
MaxJsonLen == 2
\* Items of one query object.
MaxQueryLen == 2

SeqsUpTo(S, n) == UNION {[1..k -> S] : k \in 0..n}

\* sorted(csv_files) for the set S of file indices
RECURSIVE SortedSeq(_)
SortedSeq(S) ==
    IF S = {} THEN <<>>
    ELSE LET m == CHOOSE x \in S : \A y \in S : x <= y
         IN  <<m>> \o SortedSeq(S \ {m})

HeaderRow == <<"flight_id", "origin", "destination",
               "departure_datetime", "arrival_datetime", "price">>

Scenario1Row == <<"AB1", "JFK", "LAX", "2024-01-01 10:00", "2024-01-01 14:00", "199.999">>

Scenario2Row == <<"A", "JFK", "LAX", "2024-01-01 10:00", "2024-01-01 09:00", "100">>

CsvRows ==
    {<<>>, <<"">>,
     <<"# note", "irrelevant">>,
     <<" #AB1", "JFK", "LAX", "2024-01-01 10:00", "2024-01-01 14:00", "100">>,
     HeaderRow,
     <<"Flight_ID", "ORIGIN", "destination", "departure", "arrival", "price", "note">>,
     Scenario1Row,
     Scenario2Row,
     <<" CD2 ", "LAX", "JFK", "2024-1-2 8:00", "2024-01-02 12:30", "0.001">>,
     <<"AB1", "JFK", "LAX">>}

JsonPrice(text) == [tag |-> "str", s |-> text]

JsonFlight(id, from, to, dep, arr, price) ==
    [flight_id |-> id, origin |-> from, destination |-> to,
     departure_datetime |-> dep, arrival_datetime |-> arr, price |-> price]

JsonElements ==
    {JsonFlight("AB1", "JFK", "LAX", "2024-01-01 10:00", "2024-01-01 14:00",
                [tag |-> "num", v |-> Num(15000, 2)]),
     JsonFlight("CD2", "JFK", "SFO", "2024-01-01 10:01", "2024-01-01 13:59",
                JsonPrice("150.01")),
     JsonFlight("EF3", "LAX", "JFK", "2024-01-02 08:00", "2024-01-02 12:30",
                [tag |-> "num", v |-> NaN]),
     JsonFlight("GH4\n", "LAX", "JFK", "2024-01-02 08:00", "2024-01-02 12:30",
                JsonPrice("80")),
     JsonFlight("IJ5", "LAX", "JFK", "2024-01-02 08:00", "2024-01-02 08:00",
                JsonPrice("80")),
     JsonFlight("KL6", "LAX", "JFK", "2024-01-02 08:00", "2024-01-02 12:30",
                JsonPrice("-1")),
     [flight_id |-> "MN7", origin |-> "LAX", destination |-> "JFK"]}

\* The query files of a full run: a single object is a list of one query.
QueryFiles ==
    {<< <<<<"price", "150.00">>>> >>,
     << <<<<"origin", "JFK">>, <<"departure_datetime", "2024-01-01 10:00">>>>,
        <<<<"price", "150.00">>>> >>,
     << <<<<"arrival_datetime", "soon">>>> >>}

-----------------------------------------------------------------------------
(* main(): the run of the program.                                         *)

\* An output file that was not written. export_valid_flights and
\* export_errors write a file only for a non-empty collection.
NoFile == <<>>

Init ==
    /\ pc = "start"
    /\ mode = "none"
    /\ valid_flights = <<>>
    /\ errors = <<>>
    /\ files = <<>>
    /\ line_number = 0
    /\ row = <<>>
    /\ out_flights = NoFile
    /\ out_errors = NoFile
    /\ record = <<>>
    /\ result = None
    /\ reloaded = <<>>
    /\ queries = <<>>
    /\ results = <<>>

\* args.input: lines 459-461
ParseInput ==
    /\ pc = "start"
    /\ mode' = "input"
    /\ files' = <<1>>
    /\ pc' = "open"
    /\ UNCHANGED <<valid_flights, errors, line_number, row, out_flights,
                   out_errors, record, result, reloaded, queries, results>>

\* args.directory, parse_csv_folder: lines 192-208
ParseFolder ==
    /\ pc = "start"
    /\ mode' = "directory"
    /\ \E S \in SUBSET (1..MaxFiles) :
          /\ files' = SortedSeq(S)
          /\ pc' = IF S = {} THEN "export" ELSE "open"
    /\ UNCHANGED <<valid_flights, errors, line_number, row, out_flights,
                   out_errors, record, result, reloaded, queries, results>>

\* The folder does not exist: lines 196-198
FolderMissing ==
    /\ pc = "start"
    /\ mode' = "directory"
    /\ pc' = "exit"
    /\ UNCHANGED <<valid_flights, errors, files, line_number, row, out_flights,
                   out_errors, record, result, reloaded, queries, results>>

\* open() succeeds: lines 145-147
OpenFile ==
    /\ pc = "open"
    /\ line_number' = 0
    /\ pc' = "rows"
    /\ UNCHANGED <<mode, valid_flights, errors, files, row, out_flights,
                   out_errors, record, result, reloaded, queries, results>>

\* The failure that exports what was collected so far before it exits
FileErrorAfterExport ==
    /\ pc \in {"open", "rows"}
    /\ out_flights' = IF valid_flights = <<>> THEN out_flights ELSE valid_flights
    /\ out_errors' = IF errors = <<>> THEN out_errors ELSE errors
    /\ pc' = "exit"
    /\ UNCHANGED <<mode, valid_flights, errors, files, line_number, row, record,
                   result, reloaded, queries, results>>

\* open() or a read raises: lines 188-190, sys.exit(1)
FileError ==
    /\ pc \in {"open", "rows"}
    /\ pc' = "exit"
    /\ UNCHANGED <<mode, valid_flights, errors, files, line_number, row,
                   out_flights, out_errors, record, result, reloaded, queries,
                   results>>

\* The collections after a row
Collected(out) ==
    /\ valid_flights' = out.valid
    /\ errors' = out.errors

\* One iteration of the loop of lines 149-186
ReadRow ==
    /\ pc = "rows"
    /\ line_number < MaxLine
    /\ Len(valid_flights) + Len(errors) < MaxRecords
    /\ \E r \in CsvRows :
          /\ row' = r
          /\ line_number' = line_number + 1
          /\ Collected(ProcessRow(r, line_number + 1, Head(files), valid_flights, errors))
    /\ UNCHANGED <<pc, mode, files, out_flights, out_errors, record, result,
                   reloaded, queries, results>>

\* The reader is exhausted: the next file of the folder, or back in main()
EndOfFile ==
    /\ pc = "rows"
    /\ files' = Tail(files)
    /\ pc' = IF Len(files) = 1 THEN "export" ELSE "open"
    /\ UNCHANGED <<mode, valid_flights, errors, line_number, row, out_flights,
                   out_errors, record, result, reloaded, queries, results>>

\* export_valid_flights and export_errors: lines 210-234, 467-468
Export ==
    /\ pc = "export"
    /\ out_flights' = IF valid_flights = <<>> THEN out_flights ELSE valid_flights
    /\ out_errors' = IF errors = <<>> THEN out_errors ELSE errors
    /\ pc' = "query"
    /\ UNCHANGED <<mode, valid_flights, errors, files, line_number, row, record,
                   result, reloaded, queries, results>>

\* args.json, load_json_database on a document that is a list
LoadJson(Elements) ==
    /\ pc = "start"
    /\ mode' = "json"
    /\ \E data \in SeqsUpTo(Elements, MaxJsonLen) :
          valid_flights' = LoadAll(data)
    /\ pc' = "query"
    /\ UNCHANGED <<errors, files, line_number, row, out_flights, out_errors,
                   record, result, reloaded, queries, results>>

\* The document cannot be read or is not a list: lines 242-243, 295-297
LoadJsonError ==
    /\ pc = "start"
    /\ mode' = "json"
    /\ pc' = "exit"
    /\ UNCHANGED <<valid_flights, errors, files, line_number, row, out_flights,
                   out_errors, record, result, reloaded, queries, results>>

\* No args.query: line 471
NoQuery ==
    /\ pc = "query"
    /\ pc' = "done"
    /\ UNCHANGED <<mode, valid_flights, errors, files, line_number, row,
                   out_flights, out_errors, record, result, reloaded, queries,
                   results>>

\* Lines 373-377 and 474-479: the results are saved, or sys.exit(1)
Answered(r) ==
    /\ results' = IF r.raised THEN results ELSE r.results
    /\ pc' = IF r.raised THEN "exit" ELSE "done"

\* execute_queries_from_file and save_query_results: lines 351-388, 471-479
RunQueries(Files) ==
    /\ pc = "query"
    /\ \E qs \in Files :
          /\ queries' = qs
          /\ Answered(execute_queries_from_file(valid_flights, qs))
    /\ UNCHANGED <<mode, valid_flights, errors, files, line_number, row,
                   out_flights, out_errors, record, result, reloaded>>

\* The query file cannot be read or holds neither an object nor a list
QueryFileError ==
    /\ pc = "query"
    /\ pc' = "exit"
    /\ UNCHANGED <<mode, valid_flights, errors, files, line_number, row,
                   out_flights, out_errors, record, result, reloaded, queries,
                   results>>

Next ==
    \/ ParseInput
    \/ ParseFolder
    \/ FolderMissing
    \/ OpenFile
    \/ FileError
    \/ ReadRow
    \/ EndOfFile
    \/ Export
    \/ LoadJson(JsonElements)
    \/ LoadJsonError
    \/ NoQuery
    \/ RunQueries(QueryFiles)
    \/ QueryFileError

Spec == Init /\ [][Next]_vars

-----------------------------------------------------------------------------
(* The record validator alone: a raw record, parse_flight_record on it,    *)
(* and the accepted flight exported and loaded again.                      *)

IdTexts == {"", "A", "AB1", " AB1\n", "AB-1", "ABCDEFGHI"}

OriginTexts == {"", "JFK", "jfk"}

DestinationTexts == {"LAX", " LAX ", "LAXX"}

DepartureTexts == {"", "2024-01-01 10:00", "2024-1-1 9:00", "2024-02-30 10:00",
                   "2024/01/01 10:00"}

ArrivalTexts == {"", "2024-01-01 14:00", "2024-01-01 09:00", "2024-01-01 10:00",
                 "2024-01-01 14:60", " 2024-01-01  9:00"}

PriceTexts == {"", "100", "199.999", "0.001", "0.005", "0", "-5", "abc", "nan", "inf"}

RawRecords ==
    {<<a, b, c, d, e, f>> : a \in IdTexts, b \in OriginTexts, c \in DestinationTexts,
                            d \in DepartureTexts, e \in ArrivalTexts, f \in PriceTexts}
    \cup {<<>>, <<"AB1">>, <<"AB1", "JFK", "LAX", "2024-01-01 10:00", "2024-01-01 14:00">>,
          <<"AB1", "JFK", "LAX", "2024-01-01 10:00", "2024-01-01 14:00", "100", "">>}

InitRecord ==
    /\ pc = "input"
    /\ mode = "none"
    /\ valid_flights = <<>>
    /\ errors = <<>>
    /\ files = <<>>
    /\ line_number = 0
    /\ row = <<>>
    /\ out_flights = NoFile
    /\ out_errors = NoFile
    /\ record \in RawRecords
    /\ result = None
    /\ reloaded = <<>>
    /\ queries = <<>>
    /\ results = <<>>

\* parse_flight_record(record, line_number, filename)
Validate ==
    /\ pc = "input"
    /\ result' = parse_flight_record(record)
    /\ pc' = "validated"
    /\ UNCHANGED <<mode, valid_flights, errors, files, line_number, row,
                   out_flights, out_errors, record, reloaded, queries, results>>

\* load_json_database on the document that holds the accepted flight
Reload ==
    /\ pc = "validated"
    /\ result.is_valid
    /\ reloaded' = LoadAll(<<AsJson(result.flight_data)>>)
    /\ pc' = "reloaded"
    /\ UNCHANGED <<mode, valid_flights, errors, files, line_number, row,
                   out_flights, out_errors, record, result, queries, results>>

NextRecord == Validate \/ Reload

SpecRecord == InitRecord /\ [][NextRecord]_vars

-----------------------------------------------------------------------------
(* The query engine alone: a database loaded from a JSON document and one  *)
(* query file run on it.                                                   *)

QueryDbElements ==
    {JsonFlight("AB1", "JFK", "LAX", "2024-01-01 10:00", "2024-01-01 14:00",
                [tag |-> "num", v |-> Num(15000, 2)]),
     JsonFlight("CD2", "JFK", "SFO", "2024-01-01 10:01", "2024-01-01 13:59",
                JsonPrice("150.01")),
     JsonFlight("EF3", "LAX", "JFK", "2024-01-02 08:00", "2024-01-02 12:30",
                [tag |-> "num", v |-> NaN])}

QueryItems ==
    {<<"flight_id", "CD2">>, <<"origin", "JFK">>, <<"destination", "LAX">>,
     <<"departure_datetime", "2024-01-01 10:01">>, <<"departure_datetime", "soon">>,
     <<"arrival_datetime", "2024-1-1 14:00">>, <<"arrival_datetime", "2024-01-01 14:00:00">>,
     <<"price", "150.00">>, <<"price", "abc">>, <<"price", "nan">>,
     <<"airline", "XX">>}

\* The keys of a JSON object are distinct
Queries ==
    {q \in SeqsUpTo(QueryItems, MaxQueryLen) :
        \A i, j \in 1..Len(q) : i # j => q[i][1] # q[j][1]}

\* A query file that holds one object, or one of the lists of QueryFiles
SingleQueryFiles == {<<q>> : q \in Queries} \cup QueryFiles

NextQuery ==
    \/ LoadJson(QueryDbElements)
    \/ RunQueries(SingleQueryFiles)

SpecQuery == Init /\ [][NextQuery]_vars

-----------------------------------------------------------------------------
(* Properties.                                                             *)

Last(seq) == seq[Len(seq)]

\* The data model's Flight, field by field
WellFormedId(id) == Len(id) \in 2..8 /\ AllIn(id, AlphaNumeric)

WellFormedCode(code) == Len(code) = 3 /\ AllIn(code, UpperLetters)

WellFormedFlight(f) ==
    /\ WellFormedId(f.flight_id)
    /\ WellFormedCode(f.origin)
    /\ WellFormedCode(f.destination)
    /\ strptime(f.departure_datetime).ok
    /\ strptime(f.arrival_datetime).ok
    /\ DateLT(strptime(f.departure_datetime).t, strptime(f.arrival_datetime).t)
    /\ f.price.kind \in {"num", "inf"}
    /\ FloatGT(f.price, Zero)

\* C1: every Flight of the valid-record collection has a 2-8 character
\* alphanumeric flight_id, 3-letter uppercase origin and destination, two
\* well-formed datetimes with the arrival strictly later than the departure,
\* and a stored price strictly greater than 0.
C1_FlightInvariant == \A i \in 1..Len(valid_flights) : WellFormedFlight(valid_flights[i])

\* C2: a record that parse_flight_record accepts is accepted again by
\* load_json_database, which yields a Flight equal to it field by field.
C2_RoundTrip == pc = "reloaded" => reloaded = <<result.flight_data>>

\* The field, 1 to 6, that an error message of parse_flight_record is about
SlotOf(message) ==
    CASE message \in {"missing flight_id",
                      "flight_id too short (less than 2 characters)",
                      "flight_id too long (more than 8 characters)",
                      "flight_id must be alphanumeric"} -> 1
      [] message \in {"missing origin", "invalid origin code"} -> 2
      [] message \in {"missing destination", "invalid destination code"} -> 3
      [] message \in {"missing departure_datetime", "invalid departure datetime"} -> 4
      [] message \in {"missing arrival_datetime", "invalid arrival datetime",
                      "arrival before departure"} -> 5
      [] message \in {"missing price", "price must be positive",
                      "invalid price format"} -> 6
      [] OTHER -> 0

PositiveNumber(text) ==
    float(text).kind \in {"num", "inf"} /\ FloatGT(float(text), Zero)

\* The fields of a 6-field record whose rule is broken, on the trimmed texts
BrokenSlots(rec) ==
    {i \in 1..6 :
        CASE i = 1 -> ~WellFormedId(strip(rec[1]))
          [] i = 2 -> ~WellFormedCode(strip(rec[2]))
          [] i = 3 -> ~WellFormedCode(strip(rec[3]))
          [] i = 4 -> ~strptime(strip(rec[4])).ok
          [] i = 5 -> \/ ~strptime(strip(rec[5])).ok
                      \/ /\ strptime(strip(rec[4])).ok
                         /\ ~DateLT(strptime(strip(rec[4])).t, strptime(strip(rec[5])).t)
          [] i = 6 -> ~PositiveNumber(strip(rec[6]))}

\* C3: on a 6-field record parse_flight_record returns a Flight and no
\* error, or no Flight and at least one error; the errors are one message
\* for every field whose rule is broken, in the order flight_id, origin,
\* destination, departure, arrival or ordering, price. The record with a
\* 1-character flight_id and an arrival before its departure reports both.
C3_AllErrorsInOrder ==
    (pc = "validated" /\ Len(record) = 6) =>
        /\ result.is_valid <=> result.errors = <<>>
        /\ result.is_valid <=> result.flight_data # None
        /\ \A i \in 1..Len(result.errors) : SlotOf(result.errors[i]) # 0
        /\ \A i, j \in 1..Len(result.errors) :
              i < j => SlotOf(result.errors[i]) < SlotOf(result.errors[j])
        /\ {SlotOf(result.errors[i]) : i \in 1..Len(result.errors)} = BrokenSlots(record)
        /\ record = Scenario2Row =>
              result.errors = <<"flight_id too short (less than 2 characters)",
                                "arrival before departure">>

C3_Witness ==
    /\ pc = "validated"
    /\ record = Scenario2Row
    /\ Len(result.errors) = 2

\* C4: "arrival before departure" is reported if and only if both datetimes
\* are well-formed and the arrival is not strictly later than the departure.
C4_OrderingError ==
    (pc = "validated" /\ Len(record) = 6) =>
        ("arrival before departure" \in Range(result.errors)
           <=> /\ strptime(strip(record[4])).ok
               /\ strptime(strip(record[5])).ok
               /\ ~DateLT(strptime(strip(record[4])).t, strptime(strip(record[5])).t))

\* Equal timestamps are rejected.
C4_Witness ==
    /\ pc = "validated"
    /\ Len(record) = 6
    /\ strptime(strip(record[4])).ok
    /\ strptime(strip(record[4])) = strptime(strip(record[5]))
    /\ "arrival before departure" \in Range(result.errors)

\* What a query item asks of a Flight: equality, departs on or after,
\* arrives on or before, costs no more than. Other fields ask nothing.
ItemHolds(f, field, value) ==
    CASE field \in {"flight_id", "origin", "destination"} -> f[field] = value
      [] field = "departure_datetime" ->
           /\ strptime(value).ok
           /\ ~DateLT(strptime(f.departure_datetime).t, strptime(value).t)
      [] field = "arrival_datetime" ->
           /\ strptime(value).ok
           /\ ~DateLT(strptime(value).t, strptime(f.arrival_datetime).t)
      [] field = "price" ->
           /\ float(value).kind # "err"
           /\ ~FloatGT(f.price, float(value))
      [] OTHER -> TRUE

QueryHolds(f, query) ==
    \A i \in 1..Len(query) : ItemHolds(f, query[i][1], query[i][2])

\* C5: the queries that return, return the Flights that satisfy all the
\* recognized items of the query, in the collection's order, whatever the
\* unrecognized items are; the collection is left as it was.
C5_QueryFilters ==
    [][(pc = "query" /\ pc' = "done") =>
          /\ valid_flights' = valid_flights
          /\ Len(results') = Len(queries')
          /\ \A i \in 1..Len(queries') :
                /\ results'[i].query = queries'[i]
                /\ results'[i].matches =
                      SelectSeq(valid_flights, LAMBDA f : QueryHolds(f, queries'[i]))]_vars

\* A query with an unrecognized item and a recognized one has filtered a
\* collection of two Flights down to one.
C5_Witness ==
    /\ pc = "done"
    /\ Len(valid_flights) = 2
    /\ Len(queries) = 1
    /\ \E i \in 1..Len(queries[1]) : queries[1][i][1] = "airline"
    /\ Len(queries[1]) = 2
    /\ Len(results[1].matches) = 1

SingleItemAnswers ==
    {<<results[i].query[1], results[i].matches>> :
        i \in {j \in 1..Len(results) : Len(results[j].query) = 1}}

Answered1(field) == {a \in SingleItemAnswers : a[1][1] = field}

\* C6 as stated: price matches iff the Flight's price <= the query value.
C6_PriceLessOrEqual ==
    (pc = "done" /\ queries # <<>>) =>
        \A a \in Answered1("price") : \A i \in 1..Len(valid_flights) :
            float(a[1][2]).kind # "err" =>
                (valid_flights[i] \in Range(a[2])
                   <=> FloatLE(valid_flights[i].price, float(a[1][2])))

\* C6 as the code has it: departure matches iff not earlier than the query
\* value, arrival iff not later, price iff not greater (so a nan on either
\* side matches); equal values match in all three.
C6_Thresholds ==
    (pc = "done" /\ queries # <<>>) =>
        \A i \in 1..Len(valid_flights) :
            LET f == valid_flights[i]
            IN  /\ \A a \in Answered1("departure_datetime") :
                      /\ f \in Range(a[2]) <=>
                            ~DateLT(strptime(f.departure_datetime).t, strptime(a[1][2]).t)
                      /\ strptime(f.departure_datetime) = strptime(a[1][2])
                            => f \in Range(a[2])
                /\ \A a \in Answered1("arrival_datetime") :
                      /\ f \in Range(a[2]) <=>
                            ~DateLT(strptime(a[1][2]).t, strptime(f.arrival_datetime).t)
                      /\ strptime(f.arrival_datetime) = strptime(a[1][2])
                            => f \in Range(a[2])
                /\ \A a \in Answered1("price") :
                      float(a[1][2]).kind # "err" =>
                          /\ f \in Range(a[2]) <=> ~FloatGT(f.price, float(a[1][2]))
                          /\ f.price = float(a[1][2]) => f \in Range(a[2])

\* The price query 150.00 on Flights at 150.00 and 150.01 returns the first.
C6_Witness ==
    /\ pc = "done"
    /\ Len(valid_flights) = 2
    /\ valid_flights[1].price = Num(15000, 2)
    /\ valid_flights[2].price = Num(15001, 2)
    /\ queries = << <<<<"price", "150.00">>>> >>
    /\ results[1].matches = <<valid_flights[1]>>

MalformedDatetimeItem(item) ==
    item[1] \in {"departure_datetime", "arrival_datetime"} /\ ~strptime(item[2]).ok

\* C7: a query file with a query that holds a malformed departure_datetime
\* or arrival_datetime ends the run with a fatal error, whatever the
\* collection holds and whatever the other items of the query are.
C7_MalformedDatetimeIsFatal ==
    (pc \in {"done", "exit"} /\ \E i \in 1..Len(queries) :
                                  \E j \in 1..Len(queries[i]) :
                                      MalformedDatetimeItem(queries[i][j]))
        => pc = "exit"

\* A step of the loop of parse_csv_file: one row read
RowRead == pc = "rows" /\ pc' = "rows" /\ line_number' # line_number

\* C8 as stated: a row with no fields or a single empty field adds no Flight
\* and no Diagnostic.
C8_EmptyRowsSkipped ==
    [][(RowRead /\ row' \in {<<>>, <<"">>}) =>
          valid_flights' = valid_flights /\ errors' = errors]_vars

\* C8 as the code has it: a row with no fields adds nothing and counts as a
\* line; a row that is a single empty field is a data row of too few fields
\* and adds the Diagnostic "missing required fields".
C8_NoFieldRowsSkipped ==
    [][RowRead =>
          /\ row' = <<>> =>
                /\ valid_flights' = valid_flights
                /\ errors' = errors
                /\ line_number' = line_number + 1
          /\ row' = <<"">> =>
                /\ valid_flights' = valid_flights
                /\ errors' = Append(errors, [file |-> Head(files),
                                             line_number |-> line_number + 1,
                                             raw_line |-> "",
                                             error |-> "missing required fields"])]_vars

C8_Witness ==
    /\ pc = "rows"
    /\ row = <<"">>
    /\ line_number = 2
    /\ Len(errors) = 1
    /\ Last(errors).error = "missing required fields"
    /\ Last(errors).line_number = 2

\* An earlier file of the folder was read to its end and a later one failed
EarlierFileIngested ==
    /\ pc = "exit"
    /\ mode = "directory"
    /\ files # <<>>
    /\ \E i \in 1..Len(errors) : errors[i].file < Head(files)

\* C9 as stated: what the earlier files gave is exported before the exit.
C9_ExportedBeforeExit ==
    EarlierFileIngested => out_flights = valid_flights /\ out_errors = errors

\* C9 as the code has it: a file that cannot be opened or read ends the run
\* with nothing exported, whatever the earlier files gave.
C9_NothingExported ==
    (pc = "exit" /\ files # <<>>) => out_flights = NoFile /\ out_errors = NoFile

C9_Witness ==
    /\ EarlierFileIngested
    /\ valid_flights # <<>>
    /\ out_flights = NoFile
    /\ out_errors = NoFile

HeaderLike(r) ==
    Len(r) >= 6 /\ lower(r[1]) = "flight_id" /\ lower(r[2]) = "origin"

\* The row went to the record validator: its Flight or its Diagnostic is added
PassedToValidator(r) ==
    IF parse_flight_record(r).is_valid
    THEN /\ valid_flights' = Append(valid_flights, parse_flight_record(r).flight_data)
         /\ errors' = errors
    ELSE /\ valid_flights' = valid_flights
         /\ errors' = Append(errors,
                             [file |-> Head(files),
                              line_number |-> line_number + 1,
                              raw_line |-> join(",", r),
                              error |-> join("; ", parse_flight_record(r).errors)])

\* C10: every row, blank and comment rows too, counts as a line; a row whose
\* first field starts with # after trimming adds exactly the Diagnostic
\* "comment line, ignored for data parsing"; a header row is skipped only
\* as line 1; at a later line, and every other non-empty row, goes to the
\* record validator.
C10_RowClassification ==
    [][RowRead =>
          /\ line_number' = line_number + 1
          /\ row' # <<>> =>
                IF startswith(strip(row'[1]), "#")
                THEN /\ valid_flights' = valid_flights
                     /\ errors' = Append(errors,
                                         [file |-> Head(files),
                                          line_number |-> line_number + 1,
                                          raw_line |-> join(",", row'),
                                          error |-> "comment line, ignored for data parsing"])
                ELSE IF HeaderLike(row') /\ line_number' = 1
                THEN valid_flights' = valid_flights /\ errors' = errors
                ELSE PassedToValidator(row')]_vars

\* The header row read as line 2 was validated and rejected.
C10_Witness ==
    /\ pc = "rows"
    /\ row = HeaderRow
    /\ line_number = 2
    /\ errors # <<>>
    /\ Last(errors).line_number = 2
    /\ Last(errors).raw_line = join(",", HeaderRow)
    /\ Last(errors).error # COMMENT_MESSAGE

====
